---- MODULE Spec2Model ----
(***************************************************************************)
(* A model of pyopenms_viz: the peak-map plotter (MSExperimentPlotter.py)  *)
(* and the Plotly plot kinds (plotting/_plotly/core.py).                   *)
(*                                                                         *)
(* Numbers are exact rationals <<numerator, denominator>> in lowest terms  *)
(* with a positive denominator; <<0, 0>> is the float NaN and <<1, 0>>,    *)
(* <<-1, 0>> the infinities, the values pandas gives for a division by 0.  *)
(* A table (DataFrame) is a sequence of rows, each row a record of its     *)
(* columns.                                                                *)
(***************************************************************************)
EXTENDS Integers, Sequences, FiniteSets, TLC

VARIABLES
    callerExp,   \* the caller's peak table
    originalExp, \* the caller's peak table as it was before the call
    passedExp,   \* the table object handed to the plotter, as the call left it
    prepared,    \* the table a direct _prepare_data call returned
    config,      \* MSExperimentPlotterConfig of the call
    fig,         \* the figure the call returned
    pc,          \* "idle" | "ready" | "done" | "ValueError"
    spectrum,    \* PLOTLYSpectrumPlot: self.data
    reference,   \* PLOTLYSpectrumPlot: self.reference_spectrum (<<>> is None)
    specFig,     \* PLOTLYSpectrumPlot: self.fig
    specCfg,     \* PLOTLYSpectrumPlot: config.mirror_spectrum and the by keyword
    specColumns, \* PLOTLYSpectrumPlot: the optional columns self.data has
    nPlots,      \* number of PLOTLYSpectrumPlot.plot calls made
    heatData,    \* PLOTLYFeatureHeatmapPlot: self.data
    heatFig,     \* PLOTLYFeatureHeatmapPlot: self.fig
    heatCfg,     \* PLOTLYFeatureHeatmapPlot: add_marginals and the by keyword
    heatColumns, \* PLOTLYFeatureHeatmapPlot: the optional columns self.data has
    plotlyAvailable, \* whether `import plotly.graph_objects` succeeds
    extension,   \* PLOTLYPlot: what the _load_extension call of the object did
    kindData,    \* a line, stick, scatter, chromatogram or mobilogram plot: self.data
    features,    \* chromatogram, mobilogram: self.feature_data (<<>> is None)
    kindArgs,    \* the kind of the plot and the arguments of its plot call
    kindFig      \* the plot's self.fig

vars == <<callerExp, originalExp, passedExp, prepared, config, fig, pc, spectrum, reference, specFig,
          specCfg, specColumns, nPlots, heatData, heatFig, heatCfg, heatColumns,
          plotlyAvailable, extension, kindData, features, kindArgs, kindFig>>

peakVars == <<callerExp, originalExp, passedExp, prepared, config, fig, pc>>
spectrumVars == <<spectrum, reference, specFig, specCfg, specColumns, nPlots>>
heatVars == <<heatData, heatFig, heatCfg, heatColumns>>
kindVars == <<plotlyAvailable, extension, kindData, features, kindArgs, kindFig>>

(***************************************************************************)
(* Bounds of the model.                                                    *)
(***************************************************************************)
\* rows of a peak table, bins per axis
MaxRows == 2
MaxBins == 2
\* peaks of a spectrum, PLOTLYSpectrumPlot.plot calls on one object
MaxPeaks == 2
MaxPlots == 2
\* rows of a feature table
MaxPoints == 2
\* the most rows a feature table has
MaxFeatures == 2

(***************************************************************************)
(* Exact rational arithmetic, standing for the floats of numpy and pandas. *)
(***************************************************************************)
RECURSIVE GCD(_, _)
GCD(a, b) == IF b = 0 THEN a ELSE GCD(b, a % b)

Abs(n) == IF n < 0 THEN -n ELSE n

Sign(n) == IF n < 0 THEN -1 ELSE IF n = 0 THEN 0 ELSE 1

NaN == <<0, 0>>

IsFinite(a) == a[2] # 0

Rat(n, d) ==
    IF d = 0 THEN <<Sign(n), 0>>
    ELSE LET g == GCD(Abs(n), Abs(d))
             s == IF d < 0 THEN -1 ELSE 1
         IN  <<s * (n \div g), s * (d \div g)>>

RInt(n) == <<n, 1>>

RAdd(a, b) ==
    IF ~IsFinite(a) \/ ~IsFinite(b) THEN NaN
    ELSE Rat(a[1] * b[2] + b[1] * a[2], a[2] * b[2])

RSub(a, b) ==
    IF ~IsFinite(a) \/ ~IsFinite(b) THEN NaN
    ELSE Rat(a[1] * b[2] - b[1] * a[2], a[2] * b[2])

RMul(a, b) ==
    IF ~IsFinite(a) \/ ~IsFinite(b)
    THEN <<Sign(a[1]) * Sign(b[1]), 0>>
    ELSE Rat(a[1] * b[1], a[2] * b[2])

\* float division: x / 0 is an infinity, 0 / 0 is NaN, no exception
RDiv(a, b) ==
    IF ~IsFinite(a) \/ ~IsFinite(b) THEN NaN
    ELSE Rat(a[1] * b[2], a[2] * b[1])

\* comparisons are false when an operand is NaN, as for floats
RLt(a, b) ==
    /\ a # NaN /\ b # NaN
    /\ IF IsFinite(a) /\ IsFinite(b) THEN a[1] * b[2] < b[1] * a[2]
       ELSE IF IsFinite(a) THEN b[1] > 0
       ELSE IF IsFinite(b) THEN a[1] < 0
       ELSE a[1] < b[1]

RLe(a, b) == a # NaN /\ b # NaN /\ (a = b \/ RLt(a, b))

RECURSIVE Pow10(_)
Pow10(p) == IF p = 0 THEN 1 ELSE 10 * Pow10(p - 1)

\* the integer part and the remainder of (q + r / d) * 10^p, digit by digit
RECURSIVE LongDiv(_, _, _, _)
LongDiv(q, r, d, p) ==
    IF p = 0 THEN <<q, r>>
    ELSE LongDiv(10 * q + ((10 * r) \div d), (10 * r) % d, d, p - 1)

\* round(x, p) of Python and numpy.around: to p decimals, halves to even
RRound(a, p) ==
    IF ~IsFinite(a) THEN a
    ELSE LET d == a[2]
             qr == LongDiv(a[1] \div d, a[1] % d, d, p)
             q == qr[1]
             r == qr[2]
             up == IF 2 * r > d THEN 1
                   ELSE IF 2 * r < d THEN 0
                   ELSE IF q % 2 = 0 THEN 0 ELSE 1
         IN  Rat(q + up, Pow10(p))

\* int(x) of Python: truncation towards zero
Trunc(a) == IF a[1] >= 0 THEN a[1] \div a[2] ELSE -((-a[1]) \div a[2])

(***************************************************************************)
(* pandas, as MSExperimentPlotter._prepare_data uses it.                   *)
(***************************************************************************)
\* a sequence given by a function on 1..n, element by element
RECURSIVE ToSeq(_, _)
ToSeq(f, n) == IF n = 0 THEN <<>> ELSE Append(ToSeq(f, n - 1), f[n])

Column(table, c) == ToSeq([k \in 1..Len(table) |-> table[k][c]], Len(table))

\* the smallest and the largest value of a non-empty column
ColMin(col) == col[CHOOSE i \in 1..Len(col) : \A j \in 1..Len(col) : RLe(col[i], col[j])]

ColMax(col) == col[CHOOSE i \in 1..Len(col) : \A j \in 1..Len(col) : RLe(col[j], col[i])]

RECURSIVE ColSum(_)
ColSum(col) == IF col = <<>> THEN RInt(0) ELSE RAdd(Head(col), ColSum(Tail(col)))

\* the rows of a table chosen by a predicate on the row number, in order
RECURSIVE SelectRows(_, _, _)
SelectRows(table, keep, k) ==
    IF k > Len(table) THEN <<>>
    ELSE (IF k \in keep THEN <<table[k]>> ELSE <<>>) \o SelectRows(table, keep, k + 1)

\* pd.cut(x, bins=n), the n + 1 bin edges: n equal-width bins over [min, max],
\* the first edge lowered by 0.1 % of the range so that the minimum falls in
\* the first bin; a column of one value is widened by 0.1 % of it on each side
linspace(lo, hi, n, adj) ==
    ToSeq([i \in 1..(n + 1) |->
              IF i = 1 THEN RSub(lo, adj)
              ELSE IF i = n + 1 THEN hi
              ELSE RAdd(lo, RMul(Rat(i - 1, n), RSub(hi, lo)))], n + 1)

edges_between(mn, mx, n) ==
    IF mn = mx
    THEN IF mn[1] = 0
         THEN linspace(Rat(-1, 1000), Rat(1, 1000), n, RInt(0))
         ELSE linspace(RSub(mn, Rat(Abs(mn[1]), 1000 * mn[2])),
                       RAdd(mx, Rat(Abs(mx[1]), 1000 * mx[2])), n, RInt(0))
    ELSE linspace(mn, mx, n, RMul(RSub(mx, mn), Rat(1, 1000)))

cut_edges(col, n) == edges_between(ColMin(col), ColMax(col), n)

\* pandas _round_frac: a value below 1 keeps `precision` significant digits
RECURSIVE LeadingZeros(_, _)
LeadingZeros(a, k) ==
    IF Abs(a[1]) * Pow10(k) >= a[2] \/ k >= 20 THEN k ELSE LeadingZeros(a, k + 1)

round_frac(a, precision) ==
    IF ~IsFinite(a) \/ a[1] = 0 THEN a
    ELSE IF Trunc(a) = 0 THEN RRound(a, LeadingZeros(a, 1) - 1 + precision)
    ELSE RRound(a, precision)

\* pandas _infer_precision: the first precision from 3 on that keeps the
\* rounded edges distinct
RECURSIVE infer_precision(_, _)
infer_precision(edges, precision) ==
    IF precision >= 20 THEN 3
    ELSE IF Cardinality({round_frac(edges[i], precision) : i \in 1..Len(edges)}) = Len(edges)
         THEN precision
         ELSE infer_precision(edges, precision + 1)

\* pandas _format_labels: the right-closed intervals between the rounded edges
intervals(breaks) ==
    ToSeq([i \in 1..(Len(breaks) - 1) |-> [left |-> breaks[i], right |-> breaks[i + 1]]],
          Len(breaks) - 1)

format_labels(edges, precision) ==
    intervals(ToSeq([i \in 1..Len(edges) |-> round_frac(edges[i], precision)], Len(edges)))

\* the category a value falls in: edges[i] < value <= edges[i + 1]
cut_codes(col, edges) ==
    ToSeq([k \in 1..Len(col) |->
              Cardinality({i \in 1..Len(edges) : RLt(edges[i], col[k])})], Len(col))

cut_with(col, edges) ==
    [categories |-> format_labels(edges, infer_precision(edges, 3)),
     codes |-> cut_codes(col, edges)]

\* pd.cut(x, bins=n): the categories and, per row, the number of its category
pd_cut(col, n) == cut_with(col, cut_edges(col, n))

\* Interval.mid
mid(interval) == RMul(Rat(1, 2), RAdd(interval.left, interval.right))

\* a variant of mean that adds the values up without dividing by their number
mean_as_sum(values) ==
    IF values = <<>> THEN NaN ELSE ColSum(values)

\* the mean of a cell's values, NaN for an empty cell
mean(values) ==
    IF values = <<>> THEN NaN ELSE RDiv(ColSum(values), RInt(Len(values)))

cell_values(exp, mzCut, rtCut, i, j) ==
    Column(SelectRows(exp, {k \in 1..Len(exp) : mzCut.codes[k] = i /\ rtCut.codes[k] = j}, 1),
           "inty")

\* groupby(["mz", "RT"]).agg({"inty": "mean"}).reset_index() on two categorical
\* columns: one row per pair of categories, mz-major; an empty cell has mean NaN
groupby_mean(exp, mzCut, rtCut) ==
    ToSeq([r \in 1..(Len(mzCut.categories) * Len(rtCut.categories)) |->
              [mz |-> mzCut.categories[((r - 1) \div Len(rtCut.categories)) + 1],
               RT |-> rtCut.categories[((r - 1) % Len(rtCut.categories)) + 1],
               inty |-> mean(cell_values(exp, mzCut, rtCut,
                                         ((r - 1) \div Len(rtCut.categories)) + 1,
                                         ((r - 1) % Len(rtCut.categories)) + 1))]],
          Len(mzCut.categories) * Len(rtCut.categories))

\* lines 48-49: each interval replaced by its midpoint
interval_mids(grouped) ==
    ToSeq([r \in 1..Len(grouped) |->
              [mz |-> mid(grouped[r].mz), RT |-> mid(grouped[r].RT),
               inty |-> grouped[r].inty]], Len(grouped))

fillna(table, value) ==
    ToSeq([k \in 1..Len(table) |->
              [table[k] EXCEPT !.inty = IF @ = NaN THEN value ELSE @]], Len(table))

\* a variant of sort_values that leaves the rows in their given order
sort_values_unsorted(table) == table

\* sort_values("inty"): ascending, NaN last, equal keys in their given order
sort_before(a, b) == RLt(a, b) \/ (a # NaN /\ b = NaN)

RECURSIVE sort_insert(_, _)
sort_insert(sorted, row) ==
    IF sorted = <<>> THEN <<row>>
    ELSE IF sort_before(row.inty, sorted[Len(sorted)].inty)
         THEN Append(sort_insert(SubSeq(sorted, 1, Len(sorted) - 1), row), sorted[Len(sorted)])
         ELSE Append(sorted, row)

RECURSIVE sort_fold(_, _)
sort_fold(table, k) ==
    IF k = 0 THEN <<>> ELSE sort_insert(sort_fold(table, k - 1), table[k])

sort_values(table) == sort_fold(table, Len(table))

(***************************************************************************)
(* MSExperimentPlotter                                                     *)
(***************************************************************************)
\* bin_peaks is "auto", True or False; Python's truth value of each
BinPeaksValues == {"auto", "True", "False"}

Truthy(bin_peaks) == bin_peaks # "False"

\* lines 39-42: the condition of _prepare_data's binning branch
bins_data(exp, cfg) ==
    \/ Truthy(cfg.bin_peaks)
    \/ (Len(exp) > cfg.num_mz_bins * cfg.num_RT_bins /\ cfg.bin_peaks = "auto")

\* lines 43-44 assign the cut columns into the table object that was passed in
assign_cut(exp, mzCut, rtCut) ==
    ToSeq([k \in 1..Len(exp) |->
              [exp[k] EXCEPT !.mz = mzCut.categories[mzCut.codes[k]],
                             !.RT = rtCut.categories[rtCut.codes[k]]]], Len(exp))

cut_in_place(exp, cfg) ==
    assign_cut(exp, pd_cut(Column(exp, "mz"), cfg.num_mz_bins),
               pd_cut(Column(exp, "RT"), cfg.num_RT_bins))

\* a variant of bin_table that cuts the columns but does not group the rows
bin_table_ungrouped(exp, cfg) ==
    fillna(interval_mids(cut_in_place(exp, cfg)), RInt(0))

\* lines 43-50: the binned table
bin_table(exp, cfg) ==
    fillna(interval_mids(groupby_mean(exp, pd_cut(Column(exp, "mz"), cfg.num_mz_bins),
                                      pd_cut(Column(exp, "RT"), cfg.num_RT_bins))),
           RInt(0))

\* a variant of divide_by that leaves out the factor 100
divide_by_unscaled(table, m) ==
    ToSeq([k \in 1..Len(table) |-> [table[k] EXCEPT !.inty = RDiv(@, m)]], Len(table))

\* lines 52-53: exp["inty"] / max(exp["inty"]) * 100
divide_by(table, m) ==
    ToSeq([k \in 1..Len(table) |->
              [table[k] EXCEPT !.inty = RMul(RDiv(@, m), RInt(100))]], Len(table))

relative(table, cfg) ==
    IF cfg.relative_intensity THEN divide_by(table, ColMax(Column(table, "inty")))
    ELSE table

\* lines 55-58: the hover text of a row; int() of NaN raises ValueError
hover_text(row) ==
    [mz |-> RRound(row.mz, 6), RT |-> RRound(row.RT, 2), inty |-> Trunc(row.inty)]

hover_raises(table) == \E k \in 1..Len(table) : ~IsFinite(table[k].inty)

add_hover_text(table) ==
    ToSeq([k \in 1..Len(table) |->
              [mz |-> table[k].mz, RT |-> table[k].RT, inty |-> table[k].inty,
               hover_text |-> hover_text(table[k])]], Len(table))

\* lines 55-60 on the table `scaled`; `arg` is the state in which the call
\* leaves the table object it was given: without binning the local name still
\* is that object, with binning it was rebound in line 47
finish(scaled, binned, argBinned) ==
    IF hover_raises(scaled)
    THEN [status |-> "ValueError", table |-> <<>>,
          arg |-> IF binned THEN argBinned ELSE scaled]
    ELSE [status |-> "ok", table |-> sort_values(add_hover_text(scaled)),
          arg |-> IF binned THEN argBinned ELSE add_hover_text(scaled)]

\* _prepare_data: its status, the table it returns and what it leaves in `exp`
_prepare_data(exp, cfg) ==
    IF bins_data(exp, cfg)
    THEN finish(relative(bin_table(exp, cfg), cfg), TRUE, cut_in_place(exp, cfg))
    ELSE finish(relative(exp, cfg), FALSE, <<>>)

Engines == {"MATPLOTLIB", "BOKEH", "PLOTLY"}

NoFig == [engine |-> "none"]

\* the color domain a renderer takes from the data when none is given
\* (matplotlib's Normalize.autoscale, plotly's marker.cauto)
autoscale(color) == [low |-> ColMin(color), high |-> ColMax(color)]

raised(prep) == [status |-> prep.status, fig |-> NoFig, arg |-> prep.arg]

\* lines 82-99: a scatter colored by inty, a color bar if show_legend
matplotlib_figure(prep, cfg) ==
    [status |-> "ok", arg |-> prep.arg,
     fig |-> [engine |-> "MATPLOTLIB",
              x |-> Column(prep.table, "RT"),
              y |-> Column(prep.table, "mz"),
              color |-> Column(prep.table, "inty"),
              cmin |-> autoscale(Column(prep.table, "inty")).low,
              cmax |-> autoscale(Column(prep.table, "inty")).high,
              colorbar |-> cfg.show_legend,
              hover |-> FALSE, hovertext |-> <<>>]]

\* lines 123-155: linear_cmap from the minimum to the maximum of inty, a
\* HoverTool if not bin_peaks, a ColorBar if show_legend
\* a variant of bokeh_hover that leaves the tool out only for bin_peaks = True
bokeh_hover_unless_true(cfg) == cfg.bin_peaks # "True"

bokeh_hover(cfg) == ~Truthy(cfg.bin_peaks)

\* a variant of bokeh_figure whose color mapper starts at 0
bokeh_figure_low_zero(prep, cfg) ==
    [status |-> "ok", arg |-> prep.arg,
     fig |-> [engine |-> "BOKEH",
              x |-> Column(prep.table, "RT"),
              y |-> Column(prep.table, "mz"),
              color |-> Column(prep.table, "inty"),
              cmin |-> RInt(0),
              cmax |-> ColMax(Column(prep.table, "inty")),
              colorbar |-> cfg.show_legend,
              hover |-> bokeh_hover(cfg),
              hovertext |-> IF bokeh_hover(cfg) THEN Column(prep.table, "hover_text")
                            ELSE <<>>]]

bokeh_figure(prep, cfg) ==
    [status |-> "ok", arg |-> prep.arg,
     fig |-> [engine |-> "BOKEH",
              x |-> Column(prep.table, "RT"),
              y |-> Column(prep.table, "mz"),
              color |-> Column(prep.table, "inty"),
              cmin |-> ColMin(Column(prep.table, "inty")),
              cmax |-> ColMax(Column(prep.table, "inty")),
              colorbar |-> cfg.show_legend,
              hover |-> bokeh_hover(cfg),
              hovertext |-> IF bokeh_hover(cfg) THEN Column(prep.table, "hover_text")
                            ELSE <<>>]]

\* lines 171-193: a Scattergl trace colored by inty, a colorbar if show_legend,
\* hovertext if not bin_peaks
plotly_hover(cfg) == ~Truthy(cfg.bin_peaks)

plotly_figure(prep, cfg) ==
    [status |-> "ok", arg |-> prep.arg,
     fig |-> [engine |-> "PLOTLY",
              x |-> Column(prep.table, "RT"),
              y |-> Column(prep.table, "mz"),
              color |-> Column(prep.table, "inty"),
              cmin |-> autoscale(Column(prep.table, "inty")).low,
              cmax |-> autoscale(Column(prep.table, "inty")).high,
              colorbar |-> cfg.show_legend,
              hover |-> plotly_hover(cfg),
              hovertext |-> IF plotly_hover(cfg) THEN Column(prep.table, "hover_text")
                            ELSE <<>>]]

rendered(prep, cfg, engine) ==
    IF prep.status # "ok" THEN raised(prep)
    ELSE IF engine = "MATPLOTLIB" THEN matplotlib_figure(prep, cfg)
    ELSE IF engine = "BOKEH" THEN bokeh_figure(prep, cfg)
    ELSE plotly_figure(prep, cfg)

_plotMatplotlib(exp, cfg) == rendered(_prepare_data(exp, cfg), cfg, "MATPLOTLIB")

_plotBokeh(exp, cfg) == rendered(_prepare_data(exp, cfg), cfg, "BOKEH")

_plotPlotly(exp, cfg) == rendered(_prepare_data(exp, cfg), cfg, "PLOTLY")

\* _BasePlotter.plot: the renderer of the configured engine
plot(exp, cfg) ==
    IF cfg.engine = "MATPLOTLIB" THEN _plotMatplotlib(exp, cfg)
    ELSE IF cfg.engine = "BOKEH" THEN _plotBokeh(exp, cfg)
    ELSE _plotPlotly(exp, cfg)

\* MSExperimentPlotterConfig
MSExperimentPlotterConfig(relative_intensity, bin_peaks, num_RT_bins, num_mz_bins, show_legend, engine) ==
    [relative_intensity |-> relative_intensity, bin_peaks |-> bin_peaks,
     num_RT_bins |-> num_RT_bins, num_mz_bins |-> num_mz_bins,
     show_legend |-> show_legend, engine |-> engine]

PeakRow(m, t, i) == [mz |-> RInt(m), RT |-> RInt(t), inty |-> RInt(i)]

\* the rows the peak tables of the model are drawn from: two points that
\* share mz and RT, points that share one of them, points of intensity 0
PeakRows ==
    {PeakRow(100, 1, 10), PeakRow(100, 1, 20), PeakRow(200, 1, 10),
     PeakRow(100, 2, 0), PeakRow(200, 2, 0), PeakRow(200, 2, 20)}

PeakTables == UNION {[1..n -> PeakRows] : n \in 1..MaxRows}

\* the smaller set of tables the whole plot call is run on
PlotRows == {PeakRow(100, 1, 10), PeakRow(200, 2, 20), PeakRow(100, 2, 0)}

PlotTables == UNION {[1..n -> PlotRows] : n \in 1..MaxRows}

DefaultConfig == MSExperimentPlotterConfig(FALSE, "auto", 1, 1, FALSE, "PLOTLY")

PeakIdle ==
    /\ callerExp = <<>>
    /\ originalExp = <<>>
    /\ passedExp = <<>>
    /\ prepared = <<>>
    /\ config = DefaultConfig
    /\ fig = NoFig
    /\ pc = "idle"

PeakInit(tables) ==
    /\ callerExp \in tables
    /\ originalExp = callerExp
    /\ passedExp = <<>>
    /\ prepared = <<>>
    /\ config = DefaultConfig
    /\ fig = NoFig
    /\ pc = "ready"

\* a call of MSExperimentPlotter._prepare_data on the table itself
PrepareData(relative_intensity, bin_peaks, num_RT_bins, num_mz_bins) ==
    /\ pc = "ready"
    /\ \E cfg \in {MSExperimentPlotterConfig(relative_intensity, bin_peaks, num_RT_bins,
                                             num_mz_bins, FALSE, "PLOTLY")} :
         \E res \in {_prepare_data(callerExp, cfg)} :
           /\ config' = cfg
           /\ prepared' = res.table
           /\ passedExp' = res.arg
           /\ pc' = IF res.status = "ok" THEN "done" ELSE res.status
    /\ UNCHANGED <<callerExp, originalExp, fig>>

\* a variant of copy that hands out the table itself
copy_shared(exp) == [frame |-> exp, shared |-> TRUE]

\* line 250, exp.copy(): a table of the same rows that shares nothing with exp
copy(exp) == [frame |-> exp, shared |-> FALSE]

\* plotMSExperiment: builds the configuration and plots a copy of the table;
\* what the plot call writes to the table it is handed reaches the caller's
\* table exactly if the two share their storage
plotMSExperiment(relative_intensity, bin_peaks, num_RT_bins, num_mz_bins, show_legend, engine) ==
    /\ pc = "ready"
    /\ \E cfg \in {MSExperimentPlotterConfig(relative_intensity, bin_peaks, num_RT_bins,
                                             num_mz_bins, show_legend, engine)} :
         \E passed \in {copy(callerExp)} :
           \E res \in {plot(passed.frame, cfg)} :
             /\ config' = cfg
             /\ fig' = res.fig
             /\ passedExp' = res.arg
             /\ callerExp' = IF passed.shared THEN res.arg ELSE callerExp
             /\ pc' = IF res.status = "ok" THEN "done" ELSE res.status
    /\ UNCHANGED <<originalExp, prepared>>

PrepareNext ==
    \E relative_intensity \in BOOLEAN, bin_peaks \in BinPeaksValues,
       num_RT_bins \in 1..MaxBins, num_mz_bins \in 1..MaxBins :
        PrepareData(relative_intensity, bin_peaks, num_RT_bins, num_mz_bins)

PlotNext ==
    \E relative_intensity \in BOOLEAN, bin_peaks \in BinPeaksValues,
       num_RT_bins \in 1..MaxBins, num_mz_bins \in 1..MaxBins,
       show_legend \in BOOLEAN, engine \in Engines :
        plotMSExperiment(relative_intensity, bin_peaks, num_RT_bins, num_mz_bins,
                         show_legend, engine)

(***************************************************************************)
(* plotting/_plotly/core.py                                                *)
(*                                                                         *)
(* A plotly figure is a record of its traces, its horizontal lines and the *)
(* layout settings the plot classes touch; a trace is a record of the      *)
(* properties they set, "unset" standing for a property left alone.        *)
(***************************************************************************)
Unset == "unset"

NoMarker == [unset |-> TRUE]

NoRange == <<>>

Figure ==
    [traces |-> <<>>, hlines |-> <<>>, xrange |-> NoRange, yrange |-> NoRange,
     grid |-> FALSE, reversed_x |-> {}, drawer |-> FALSE]

\* the outcome of a _load_extension call: how it ended, the parts of the
\* message of the error it raised, and the imports it tried
Unloaded == [status |-> "unloaded", message |-> <<>>, imports |-> 0]

\* a variant of _load_extension that swallows the failed import
_load_extension_silent(available) == [status |-> "loaded", message |-> <<>>, imports |-> 1]

\* lines 28-37: one import; if it fails, an ImportError with this message,
\* given in its parts (the install command stands in backquotes)
_load_extension(available) ==
    IF available THEN [status |-> "loaded", message |-> <<>>, imports |-> 1]
    ELSE [status |-> "ImportError",
          message |-> <<"plotly", " is not installed", ". Please install using ",
                        "pip install plotly",
                        " to use this plotting library in pyopenms-viz">>,
          imports |-> 1]

\* lines 39-51: a new figure if none is supplied
_create_figure(given) == IF given = NoFig THEN Figure ELSE given

Trace(kind, x, y, mode, name) ==
    [kind |-> kind, x |-> x, y |-> y, mode |-> mode, name |-> name,
     legendgroup |-> Unset, showlegend |-> Unset, line_color |-> Unset,
     fillcolor |-> Unset, dash |-> Unset, marker |-> NoMarker, hovertemplate |-> <<>>, customdata |-> <<>>,
     row |-> 0, col |-> 0, secondary_y |-> FALSE]

\* ColorGenerator (plotting/_misc.py): next() walks round a fixed palette
Palette == <<"color0", "color1", "color2">>

\* the color next() hands out after `taken` earlier calls
next_color(taken) == Palette[(taken % Len(Palette)) + 1]

\* the group names of the model in the order groupby sorts them
GroupOrder == <<"a", "b", "c">>

\* data.groupby(by): the keys present, sorted
groupby(data) == SelectSeq(GroupOrder, LAMBDA g : \E k \in 1..Len(data) : data[k].group = g)

group_rows(data, g) == SelectRows(data, {k \in 1..Len(data) : data[k].group = g}, 1)

IntMin(col) == CHOOSE v \in {col[k] : k \in 1..Len(col)} : \A k \in 1..Len(col) : v <= col[k]

IntMax(col) == CHOOSE v \in {col[k] : k \in 1..Len(col)} : \A k \in 1..Len(col) : v >= col[k]

\* lines 106-110: update_traces sets them on every trace of the figure
set_hover(trace, tooltips, custom_hover_data) ==
    [trace EXCEPT !.hovertemplate = tooltips, !.customdata = custom_hover_data]

_add_tooltips(plotted, tooltips, custom_hover_data) ==
    [plotted EXCEPT !.traces =
        ToSeq([k \in 1..Len(plotted.traces) |->
                  set_hover(plotted.traces[k], tooltips, custom_hover_data)],
              Len(plotted.traces))]

\* lines 112-126
_add_bounding_box_drawer(plotted) == [plotted EXCEPT !.drawer = TRUE]

\* lines 151-156: start - start * padding[0], end + end * padding[1]
_modify_x_range(plotted, x_range, padding) ==
    [plotted EXCEPT !.xrange =
        <<RSub(x_range[1], RMul(x_range[1], padding[1])),
          RAdd(x_range[2], RMul(x_range[2], padding[2]))>>]

\* lines 158-163: the same on the y axis
_modify_y_range(plotted, y_range, padding) ==
    [plotted EXCEPT !.yrange =
        <<RSub(y_range[1], RMul(y_range[1], padding[1])),
          RAdd(y_range[2], RMul(y_range[2], padding[2]))>>]

\* lines 129-149: an empty trace for the shapes drawn, and the draw buttons
_add_bounding_vertical_drawer(plotted) ==
    [plotted EXCEPT !.traces = Append(@, Trace("Scatter", <<>>, <<>>, "lines", Unset)),
                    !.drawer = TRUE]

\* BasePlotter.generate (plotting/_core.py): the tooltips, if any are passed,
\* are set after the plot method has added its traces
generate(plotted, tooltips, custom_hover_data) ==
    IF tooltips = <<>> THEN plotted ELSE _add_tooltips(plotted, tooltips, custom_hover_data)

\* --- PLOTLYLinePlot.plot, lines 194-232 ---
line_trace(rows, x, y, name, color) ==
    [Trace("Scatter", Column(rows, x), Column(rows, y), "lines", name) EXCEPT
        !.line_color = color]

line_groups(data, x, y, keys) ==
    ToSeq([i \in 1..Len(keys) |->
              line_trace(group_rows(data, keys[i]), x, y, keys[i], next_color(i - 1))],
          Len(keys))

line_traces(data, x, y, by) ==
    IF by = "None" THEN <<line_trace(data, x, y, Unset, next_color(0))>>
    ELSE line_groups(data, x, y, groupby(data))

PLOTLYLinePlot_plot(given, data, x, y, by) ==
    [given EXCEPT !.traces = given.traces \o line_traces(data, x, y, by)]

\* --- PLOTLYVLinePlot.plot, lines 237-287 ---
\* one stick per row, from 0 to the row's y at the row's x
stick(row, name, showlegend, color) ==
    [Trace("Scattergl", <<row.x, row.x>>, <<0, row.y>>, "lines", name) EXCEPT
        !.legendgroup = name, !.showlegend = showlegend, !.line_color = color]

\* lines 244-248, 267-271: the legend entry of a group's first stick
first_group_trace_showlegend(showlegend) ==
    IF showlegend = Unset THEN "True" ELSE showlegend

\* a variant of sticks that gives every stick the legend entry of the first
sticks_all_shown(rows, name, first, color) ==
    ToSeq([k \in 1..Len(rows) |-> stick(rows[k], name, first, color)], Len(rows))

sticks(rows, name, first, color) ==
    ToSeq([k \in 1..Len(rows) |->
              stick(rows[k], name, IF k = 1 THEN first ELSE "False", color)], Len(rows))

RECURSIVE vline_groups(_, _, _, _)
vline_groups(data, keys, i, first) ==
    IF i > Len(keys) THEN <<>>
    ELSE sticks(group_rows(data, keys[i]), keys[i], first, next_color(i - 1))
            \o vline_groups(data, keys, i + 1, first)

vline_traces(data, by, first) ==
    IF by = "None" THEN sticks(data, "Trace", first, next_color(0))
    ELSE vline_groups(data, groupby(data), 1, first)

PLOTLYVLinePlot_plot(given, data, by, showlegend) ==
    [given EXCEPT !.traces =
        given.traces \o vline_traces(data, by, first_group_trace_showlegend(showlegend))]

\* --- PLOTLYScatterPlot.plot, lines 292-328 ---
\* lines 301-311: without a group column the trace takes a color of its own
\* from the generator, the second one if no marker was passed, and leaves the
\* marker it was passed aside
scatter_ungrouped(data, marker) ==
    [Trace("Scattergl", Column(data, "x"), Column(data, "y"), "markers", Unset) EXCEPT
        !.marker = [color |-> next_color(IF marker = NoMarker THEN 1 ELSE 0)]]

\* lines 313-325: marker_dict is set once, at the first group, if none was passed
marker_dict(marker) == IF marker = NoMarker THEN [color |-> next_color(0)] ELSE marker

scatter_group(rows, name, marker) ==
    [Trace("Scatter", Column(rows, "x"), Column(rows, "y"), "markers", name) EXCEPT
        !.marker = marker_dict(marker)]

scatter_groups(data, keys, marker) ==
    ToSeq([i \in 1..Len(keys) |-> scatter_group(group_rows(data, keys[i]), keys[i], marker)],
          Len(keys))

scatter_traces(data, by, marker) ==
    IF by = "None" THEN <<scatter_ungrouped(data, marker)>>
    ELSE scatter_groups(data, groupby(data), marker)

PLOTLYScatterPlot_plot(given, data, by, marker) ==
    [given EXCEPT !.traces = given.traces \o scatter_traces(data, by, marker)]

\* --- tooltips of the spectrum and the feature heatmap, lines 420-441, 464-484 ---
OptionalColumns == <<"mz", "Annotation", "product_mz">>

\* the row index first, then the optional columns the data has
custom_hover_data(columns) ==
    <<"index">> \o SelectSeq(OptionalColumns, LAMBDA c : c \in columns)

TooltipLine(label, field, index) == [label |-> label, field |-> field, index |-> index]

\* a variant of index_after that gives every optional column a fixed index
index_after_fixed(columns, seen) == 1 + Cardinality(seen)

\* custom_hover_data_index as it stands when a column's line is written
index_after(columns, seen) == 1 + Cardinality(columns \cap seen)

TOOLTIPS(columns) ==
    <<TooltipLine("Index", "customdata", 0),
      TooltipLine("Retention Time", "x", 0),
      TooltipLine("Intensity", "y", 0)>>
    \o (IF "mz" \in columns
        THEN <<TooltipLine("m/z", "customdata", index_after(columns, {}))>> ELSE <<>>)
    \o (IF "Annotation" \in columns
        THEN <<TooltipLine("Annotation", "customdata", index_after(columns, {"mz"}))>>
        ELSE <<>>)
    \o (IF "product_mz" \in columns
        THEN <<TooltipLine("Target m/z", "customdata",
                           index_after(columns, {"mz", "Annotation"}))>>
        ELSE <<>>)

\* --- PLOTLYSpectrumPlot.plot, lines 413-455 ---
None == <<>>

\* SpectrumPlot._prepare_data (plotting/_core.py): the spectrum and the
\* reference spectrum to draw, as tables of their own; `shared` tells whether
\* the reference table returned is the stored object itself
SpectrumPlot_prepare_data(data, reference_spectrum) ==
    [spectrum |-> data, reference |-> reference_spectrum, shared |-> FALSE]

\* a variant of negated that leaves the intensities as they are
negated_unflipped(table) == table

\* line 448: reference_spectrum[y] * -1
negated(table) ==
    ToSeq([k \in 1..Len(table) |-> [table[k] EXCEPT !.y = @ * (-1)]], Len(table))

add_hline(plotted, y) == [plotted EXCEPT !.hlines = Append(plotted.hlines, y)]

\* line 446
mirrors(cfg, prep) == cfg.mirror_spectrum /\ prep.reference # None

\* lines 443-444
spectrumPlot(prep, cfg, columns) ==
    generate(PLOTLYVLinePlot_plot(_create_figure(NoFig), prep.spectrum, cfg.by, Unset),
             TOOLTIPS(columns), custom_hover_data(columns))

\* lines 447-452
mirrorSpectrumPlot(plotted, prep, cfg) ==
    add_hline(generate(PLOTLYVLinePlot_plot(_create_figure(plotted), negated(prep.reference),
                                            cfg.by, "False"),
                       <<>>, <<>>),
              0)

spectrum_figure(data, prep, cfg, columns) ==
    _modify_x_range(IF mirrors(cfg, prep)
                    THEN mirrorSpectrumPlot(spectrumPlot(prep, cfg, columns), prep, cfg)
                    ELSE spectrumPlot(prep, cfg, columns),
                    <<RInt(IntMin(Column(data, "x"))), RInt(IntMax(Column(data, "x")))>>,
                    <<Rat(1, 10), Rat(1, 10)>>)

\* a variant of reference_after in which line 448 writes to the stored table
reference_after_written(stored, prep, cfg) ==
    IF mirrors(cfg, prep) THEN negated(prep.reference) ELSE stored

\* line 448 assigns the column in place: the stored reference spectrum changes
\* with it exactly if the table being drawn is the stored object
reference_after(stored, prep, cfg) ==
    IF mirrors(cfg, prep) /\ prep.shared THEN negated(prep.reference) ELSE stored

\* --- PLOTLYFeatureHeatmapPlot.plot, lines 459-623 ---
RECURSIVE unique(_)
unique(col) ==
    IF col = <<>> THEN <<>>
    ELSE unique(SubSeq(col, 1, Len(col) - 1))
            \o (IF \E k \in 1..(Len(col) - 1) : col[k] = col[Len(col)] THEN <<>>
                ELSE <<col[Len(col)]>>)

\* lines 489-493
heat_marker(data) ==
    [color |-> unique(Column(data, "z")),
     cmin |-> IntMin(Column(data, "z")),
     cmax |-> IntMax(Column(data, "z")),
     colorscale |-> "Plasma_r", showscale |-> FALSE, symbol |-> "square",
     size |-> 10, opacity |-> Rat(2, 5)]

\* lines 487-498
scatterPlot(data, cfg, columns) ==
    _add_bounding_box_drawer(
        generate(PLOTLYScatterPlot_plot(_create_figure(NoFig), data, cfg.by, heat_marker(data)),
                 TOOLTIPS(columns), custom_hover_data(columns)))

\* FeatureHeatmapPlot._integrate_data_along_dim (plotting/_core.py): one row
\* per value of the column, in ascending order, holding the sum of z
RECURSIVE ascending(_)
ascending(values) ==
    IF values = {} THEN <<>>
    ELSE <<CHOOSE v \in values : \A w \in values : v <= w>>
            \o ascending(values \ {CHOOSE v \in values : \A w \in values : v <= w})

RECURSIVE IntSum(_)
IntSum(col) == IF col = <<>> THEN 0 ELSE Head(col) + IntSum(Tail(col))

integrated_row(data, dim, value) ==
    [x |-> IF dim = "x" THEN value ELSE 0,
     y |-> IF dim = "y" THEN value ELSE 0,
     z |-> IntSum(Column(SelectRows(data, {k \in 1..Len(data) : data[k][dim] = value}, 1),
                         "z"))]

integrated(data, dim, values) ==
    ToSeq([i \in 1..Len(values) |-> integrated_row(data, dim, values[i])], Len(values))

_integrate_data_along_dim(data, dim) ==
    integrated(data, dim, ascending({data[k][dim] : k \in 1..Len(data)}))

\* lines 514-516 and 534-539: the marginal line plots, z over x and y over z
x_fig(data) ==
    PLOTLYLinePlot_plot(_create_figure(NoFig), _integrate_data_along_dim(data, "x"),
                        "x", "z", "None")

y_fig(data) ==
    PLOTLYLinePlot_plot(_create_figure(NoFig), _integrate_data_along_dim(data, "y"),
                        "z", "y", "None")

\* lines 555-590: a trace put into a cell of the grid
in_cell(trace, row, col, secondary_y, showlegend) ==
    [trace EXCEPT !.row = row, !.col = col, !.secondary_y = secondary_y,
                  !.showlegend = showlegend, !.legendgroup = trace.name]

cell_traces(traces, row, col, secondary_y, hide) ==
    ToSeq([k \in 1..Len(traces) |->
              in_cell(traces[k], row, col, secondary_y,
                      IF hide THEN "False" ELSE traces[k].showlegend)], Len(traces))

\* a variant of fig_m that puts the two marginal plots into each other's cell
fig_m_swapped(heat, xFig, yFig) ==
    [traces |-> cell_traces(heat.traces, 2, 2, FALSE, TRUE)
                    \o cell_traces(xFig.traces, 2, 1, TRUE, FALSE)
                    \o cell_traces(yFig.traces, 1, 2, FALSE, TRUE),
     hlines |-> heat.hlines, xrange |-> heat.xrange, yrange |-> heat.yrange,
     grid |-> TRUE, reversed_x |-> {<<2, 1>>}, drawer |-> heat.drawer]

\* lines 545-621: the 2 x 2 grid of the heatmap and its two marginal plots
fig_m(heat, xFig, yFig) ==
    [traces |-> cell_traces(heat.traces, 2, 2, FALSE, TRUE)
                    \o cell_traces(xFig.traces, 1, 2, TRUE, FALSE)
                    \o cell_traces(yFig.traces, 2, 1, FALSE, TRUE),
     hlines |-> heat.hlines, xrange |-> heat.xrange, yrange |-> heat.yrange,
     grid |-> TRUE, reversed_x |-> {<<2, 1>>}, drawer |-> heat.drawer]

heatmap_figure(data, cfg, columns) ==
    IF cfg.add_marginals
    THEN fig_m(scatterPlot(data, cfg, columns), x_fig(data), y_fig(data))
    ELSE scatterPlot(data, cfg, columns)

\* --- PLOTLYChromatogramPlot and PLOTLYMobilogramPlot, lines 332-408 ---
\* a feature table: whether one was given, its optional columns and its rows
NoFeatureData == [given |-> FALSE, columns |-> {}, rows |-> <<>>]

\* the four digits of r, a number below 10000
four_digits(r) ==
    (IF r < 10 THEN "000" ELSE IF r < 100 THEN "00" ELSE IF r < 1000 THEN "0" ELSE "")
        \o ToString(r)

\* f"{q:.4f}" of a number that is not negative: rounded to four decimals
format_4f(q) ==
    ToString(Trunc(RMul(RRound(q, 4), RInt(10000))) \div 10000) \o "."
        \o four_digits(Trunc(RMul(RRound(q, 4), RInt(10000))) % 10000)

\* lines 373-376
legend_label(idx, feature, columns) ==
    IF "q_value" \in columns
    THEN "Feature " \o ToString(idx) \o " (q-value: " \o format_4f(feature.q_value) \o ")"
    ELSE "Feature " \o ToString(idx)

\* lines 377-388: the outline of one feature
peak_boundary(idx, feature, columns) ==
    [Trace("Scatter",
           <<feature.leftWidth, feature.leftWidth, feature.rightWidth, feature.rightWidth>>,
           <<0, feature.apexIntensity, 0, feature.apexIntensity>>,
           "lines", legend_label(idx, feature, columns)) EXCEPT
        !.fillcolor = next_color(idx), !.dash = "dash"]

\* lines 368-388: one trace per row of the feature table, idx counting from 0
_add_peak_boundaries(plotted, feature_data) ==
    [plotted EXCEPT !.traces =
        @ \o ToSeq([k \in 1..Len(feature_data.rows) |->
                        peak_boundary(k - 1, feature_data.rows[k], feature_data.columns)],
                    Len(feature_data.rows))]

\* lines 365-366, 407-408: if self.feature_data is not None
with_peak_boundaries(plotted, feature_data) ==
    IF feature_data.given THEN _add_peak_boundaries(plotted, feature_data) ELSE plotted

\* a variant of padded_y_range that pads the range the figure already has
padded_y_range_compounding(plotted, data) ==
    IF plotted.yrange = NoRange
    THEN _modify_y_range(plotted, <<RInt(0), RInt(IntMax(Column(data, "y")))>>,
                         <<RInt(0), Rat(1, 10)>>)
    ELSE _modify_y_range(plotted, plotted.yrange, <<RInt(0), Rat(1, 10)>>)

\* lines 361, 405: self._modify_y_range((0, self.data[self.y].max()), (0, 0.1))
padded_y_range(plotted, data) ==
    _modify_y_range(plotted, <<RInt(0), RInt(IntMax(Column(data, "y")))>>,
                    <<RInt(0), Rat(1, 10)>>)

\* lines 334-366; the line plot of lines 358-359 is built without `by`, which
\* the parameter of plot keeps to itself
PLOTLYChromatogramPlot_plot(data, columns, feature_data) ==
    with_peak_boundaries(
        _add_bounding_vertical_drawer(
            padded_y_range(
                generate(PLOTLYLinePlot_plot(_create_figure(NoFig), data, "x", "y", "None"),
                         TOOLTIPS(columns), custom_hover_data(columns)),
                data)),
        feature_data)

\* lines 402-408
PLOTLYMobilogramPlot_plot(data, columns, feature_data) ==
    with_peak_boundaries(
        padded_y_range(PLOTLYChromatogramPlot_plot(data, columns, feature_data), data),
        feature_data)

\* the spectra and feature tables of the model
SpectrumRow(x, y, g) == [x |-> x, y |-> y, group |-> g]

SpectrumRows == {SpectrumRow(100, 5, "a"), SpectrumRow(200, 10, "b"), SpectrumRow(150, 10, "a")}

ReferenceRows == {SpectrumRow(100, 4, "a"), SpectrumRow(200, 8, "b")}

Spectra == UNION {[1..n -> SpectrumRows] : n \in 1..MaxPeaks}

References == {None} \cup UNION {[1..n -> ReferenceRows] : n \in 1..MaxPeaks}

ColumnSets == SUBSET {"mz", "Annotation", "product_mz"}

Groupings == {"None", "group"}

FeatureRow(x, y, z, g) == [x |-> x, y |-> y, z |-> z, group |-> g]

FeatureRows ==
    {FeatureRow(1, 1, 5, "a"), FeatureRow(2, 1, 10, "b"), FeatureRow(1, 2, 10, "a"),
     FeatureRow(2, 2, 20, "b")}

FeatureTables == UNION {[1..n -> FeatureRows] : n \in 1..MaxPoints}

SpectrumIdle ==
    /\ spectrum = <<>>
    /\ reference = None
    /\ specFig = NoFig
    /\ specCfg = [mirror_spectrum |-> FALSE, by |-> "None"]
    /\ specColumns = {}
    /\ nPlots = 0

\* a PLOTLYSpectrumPlot object as constructed
SpectrumInit ==
    /\ spectrum \in Spectra
    /\ reference \in References
    /\ specFig = NoFig
    /\ specCfg \in [mirror_spectrum : BOOLEAN, by : Groupings]
    /\ specColumns \in ColumnSets
    /\ nPlots = 0

\* PLOTLYSpectrumPlot.plot, one call
PLOTLYSpectrumPlot_plot ==
    /\ nPlots < MaxPlots
    /\ \E prep \in {SpectrumPlot_prepare_data(spectrum, reference)} :
         /\ specFig' = spectrum_figure(spectrum, prep, specCfg, specColumns)
         /\ reference' = reference_after(reference, prep, specCfg)
    /\ nPlots' = nPlots + 1
    /\ UNCHANGED <<spectrum, specCfg, specColumns>>

\* the tables, feature tables and plot arguments of the model
KindTables ==
    UNION {[1..n -> {SpectrumRow(100, 5, "a"), SpectrumRow(200, 10, "b")}] : n \in 1..MaxPeaks}

FeatureData ==
    {NoFeatureData}
    \cup UNION {{[given |-> TRUE, columns |-> {"q_value"}, rows |-> r] :
                  r \in [1..n -> {[leftWidth |-> 1, rightWidth |-> 3, apexIntensity |-> 10,
                                   q_value |-> Rat(1, 100)],
                                  [leftWidth |-> 4, rightWidth |-> 6, apexIntensity |-> 5,
                                   q_value |-> Rat(12346, 1000000)]}]} : n \in 0..MaxFeatures}
    \cup UNION {{[given |-> TRUE, columns |-> {}, rows |-> r] :
                  r \in [1..n -> {[leftWidth |-> 1, rightWidth |-> 3, apexIntensity |-> 10],
                                  [leftWidth |-> 4, rightWidth |-> 6, apexIntensity |-> 5]}]} :
                 n \in 0..MaxFeatures}

KindArgs ==
    {a \in [kind : {"line", "vline", "scatter", "chromatogram", "mobilogram"},
            by : Groupings, showlegend : {Unset, "True", "False"},
            marker : {NoMarker, [color |-> "red"]}, columns : ColumnSets] :
        /\ a.kind \in {"chromatogram", "mobilogram"} => a.by = "None"
        /\ a.kind # "vline" => a.showlegend = Unset
        /\ a.kind # "scatter" => a.marker = NoMarker
        /\ a.kind \notin {"chromatogram", "mobilogram"} => a.columns = {}}

KindIdle ==
    /\ plotlyAvailable = TRUE
    /\ extension = Unloaded
    /\ kindData = <<>>
    /\ features = NoFeatureData
    /\ kindArgs = [kind |-> "none"]
    /\ kindFig = NoFig

\* a plot object of one of the kinds, before its constructor has run
KindInit ==
    /\ plotlyAvailable \in BOOLEAN
    /\ extension = Unloaded
    /\ kindData \in KindTables
    /\ kindArgs \in KindArgs
    /\ features \in IF kindArgs.kind \in {"chromatogram", "mobilogram"}
                    THEN FeatureData ELSE {NoFeatureData}
    /\ kindFig = NoFig

\* PLOTLYPlot._load_extension, which the constructor of a plot calls
LoadExtension ==
    /\ kindArgs.kind # "none"
    /\ extension = Unloaded
    /\ extension' = _load_extension(plotlyAvailable)
    /\ UNCHANGED <<plotlyAvailable, kindData, features, kindArgs, kindFig>>
    /\ UNCHANGED <<peakVars, spectrumVars, heatVars>>

\* the plot call of a constructed plot of the given kind
Plots(kind) ==
    /\ extension.status = "loaded"
    /\ kindFig = NoFig
    /\ kindArgs.kind = kind
    /\ UNCHANGED <<plotlyAvailable, extension, kindData, features, kindArgs>>
    /\ UNCHANGED <<peakVars, spectrumVars, heatVars>>

\* the line and stick plots are called with a color generator as line_color,
\* as their callers in this file do
DrawLine ==
    /\ Plots("line")
    /\ kindFig' = PLOTLYLinePlot_plot(_create_figure(NoFig), kindData, "x", "y", kindArgs.by)

DrawVLine ==
    /\ Plots("vline")
    /\ kindFig' = PLOTLYVLinePlot_plot(_create_figure(NoFig), kindData, kindArgs.by,
                                       kindArgs.showlegend)

DrawScatter ==
    /\ Plots("scatter")
    /\ kindFig' = PLOTLYScatterPlot_plot(_create_figure(NoFig), kindData, kindArgs.by,
                                         kindArgs.marker)

DrawChromatogram ==
    /\ Plots("chromatogram")
    /\ kindFig' = PLOTLYChromatogramPlot_plot(kindData, kindArgs.columns, features)

DrawMobilogram ==
    /\ Plots("mobilogram")
    /\ kindFig' = PLOTLYMobilogramPlot_plot(kindData, kindArgs.columns, features)

HeatIdle ==
    /\ heatData = <<>>
    /\ heatFig = NoFig
    /\ heatCfg = [by |-> "None", add_marginals |-> FALSE]
    /\ heatColumns = {}

\* a PLOTLYFeatureHeatmapPlot object as constructed
HeatInit ==
    /\ heatData \in FeatureTables
    /\ heatFig = NoFig
    /\ heatCfg \in [by : Groupings, add_marginals : BOOLEAN]
    /\ heatColumns \in ColumnSets

\* PLOTLYFeatureHeatmapPlot.plot
PLOTLYFeatureHeatmapPlot_plot ==
    /\ heatFig = NoFig
    /\ heatFig' = heatmap_figure(heatData, heatCfg, heatColumns)
    /\ UNCHANGED <<heatData, heatCfg, heatColumns>>

(***************************************************************************)
(* Spec: one _prepare_data call on any table.                              *)
(***************************************************************************)
Init == PeakInit(PeakTables) /\ SpectrumIdle /\ HeatIdle /\ KindIdle

Next == PrepareNext /\ UNCHANGED <<spectrumVars, heatVars, kindVars>>

Spec == Init /\ [][Next]_vars

(***************************************************************************)
(* SpecPlot: one plotMSExperiment call, through any of the three engines.  *)
(***************************************************************************)
InitPlot == PeakInit(PlotTables) /\ SpectrumIdle /\ HeatIdle /\ KindIdle

NextPlot == PlotNext /\ UNCHANGED <<spectrumVars, heatVars, kindVars>>

SpecPlot == InitPlot /\ [][NextPlot]_vars

(***************************************************************************)
(* SpecSpectrum: PLOTLYSpectrumPlot.plot, called up to MaxPlots times on   *)
(* one object.                                                             *)
(***************************************************************************)
InitSpectrum == PeakIdle /\ SpectrumInit /\ HeatIdle /\ KindIdle

NextSpectrum == PLOTLYSpectrumPlot_plot /\ UNCHANGED <<peakVars, heatVars, kindVars>>

SpecSpectrum == InitSpectrum /\ [][NextSpectrum]_vars

(***************************************************************************)
(* SpecHeatmap: one PLOTLYFeatureHeatmapPlot.plot call.                    *)
(***************************************************************************)
InitHeatmap == PeakIdle /\ SpectrumIdle /\ HeatInit /\ KindIdle

NextHeatmap == PLOTLYFeatureHeatmapPlot_plot /\ UNCHANGED <<peakVars, spectrumVars, kindVars>>

SpecHeatmap == InitHeatmap /\ [][NextHeatmap]_vars

(***************************************************************************)
(* SpecKinds: a plot of one of the Plotly kinds.  A line, stick, scatter,  *)
(* chromatogram or mobilogram plot is constructed, which loads the         *)
(* extension, and its plot method is called; or a spectrum or a feature    *)
(* heatmap is plotted as in SpecSpectrum and SpecHeatmap.                  *)
(***************************************************************************)
InitKinds ==
    /\ PeakIdle
    /\ \/ SpectrumIdle /\ HeatIdle /\ KindInit
       \/ SpectrumInit /\ HeatIdle /\ KindIdle
       \/ SpectrumIdle /\ HeatInit /\ KindIdle

NextKinds ==
    \/ LoadExtension
    \/ DrawLine
    \/ DrawVLine
    \/ DrawScatter
    \/ DrawChromatogram
    \/ DrawMobilogram
    \/ spectrum # <<>> /\ NextSpectrum
    \/ heatData # <<>> /\ NextHeatmap

SpecKinds == InitKinds /\ [][NextKinds]_vars

(***************************************************************************)
(* Claims about MSExperimentPlotter._prepare_data, checked under Spec.     *)
(***************************************************************************)
Core(row) == <<row.mz, row.RT, row.inty>>

Occurrences(table, v) == Cardinality({k \in 1..Len(table) : Core(table[k]) = v})

\* two tables hold the same rows (mz, RT, inty), in any order
SameRows(a, b) ==
    /\ Len(a) = Len(b)
    /\ \A k \in 1..Len(a) : Occurrences(a, Core(a[k])) = Occurrences(b, Core(a[k]))

BinProduct == config.num_mz_bins * config.num_RT_bins

Returned == pc = "done"

\* C1: with bin_peaks = "auto", relative_intensity off and at most
\* num_mz_bins * num_RT_bins rows, the table returned holds exactly the input
\* rows with their mz, RT and inty.
C1_AutoSmallTableUnbinned ==
    (/\ pc \in {"done", "ValueError"}
     /\ config.bin_peaks = "auto"
     /\ ~config.relative_intensity
     /\ Len(callerExp) <= BinProduct)
        => (Returned /\ SameRows(prepared, callerExp))

\* C2: when the row count exceeds num_mz_bins * num_RT_bins under "auto", or
\* binning is switched on, the table returned has at most
\* num_mz_bins * num_RT_bins rows.
C2_BinnedRowBound ==
    (/\ Returned
     /\ \/ config.bin_peaks = "True"
        \/ (config.bin_peaks = "auto" /\ Len(callerExp) > BinProduct))
        => Len(prepared) <= BinProduct

\* more rows than cells under "auto", and fewer rows come back
C2_Witness ==
    /\ Returned
    /\ config.bin_peaks = "auto"
    /\ Len(callerExp) > BinProduct
    /\ Len(prepared) = BinProduct
    /\ Len(prepared) < Len(callerExp)

\* the input rows whose mz lies in the i-th mz bin and whose RT lies in the
\* j-th RT bin: edge < value <= next edge
InBin(value, edges, i) == RLt(edges[i], value) /\ RLe(value, edges[i + 1])

CellMembers(i, j) ==
    {k \in 1..Len(callerExp) :
        /\ InBin(callerExp[k].mz, cut_edges(Column(callerExp, "mz"), config.num_mz_bins), i)
        /\ InBin(callerExp[k].RT, cut_edges(Column(callerExp, "RT"), config.num_RT_bins), j)}

RECURSIVE SumInty(_)
SumInty(members) ==
    IF members = {} THEN RInt(0)
    ELSE LET k == CHOOSE m \in members : TRUE
         IN  RAdd(callerExp[k].inty, SumInty(members \ {k}))

CellMean(i, j) ==
    IF CellMembers(i, j) = {} THEN RInt(0)
    ELSE RDiv(SumInty(CellMembers(i, j)), RInt(Cardinality(CellMembers(i, j))))

CellRow(i, j) ==
    <<mid(pd_cut(Column(callerExp, "mz"), config.num_mz_bins).categories[i]),
      mid(pd_cut(Column(callerExp, "RT"), config.num_RT_bins).categories[j]),
      CellMean(i, j)>>

AfterBinning ==
    IF bins_data(callerExp, config) THEN bin_table(callerExp, config) ELSE callerExp

MaxInty(table) == ColMax(Column(table, "inty"))

Rescaled(table) ==
    ToSeq([k \in 1..Len(table) |->
              [table[k] EXCEPT !.inty = RMul(RDiv(@, MaxInty(table)), RInt(100))]],
          Len(table))

\* C4 as stated: with relative_intensity the intensities returned are
\* value / max * 100 over the table after binning and their maximum is 100;
\* without it they are left as they were.
C4_RelativeMaxIs100 ==
    pc \in {"done", "ValueError"}
        => /\ Returned
           /\ config.relative_intensity
                => /\ SameRows(prepared, Rescaled(AfterBinning))
                   /\ MaxInty(prepared) = RInt(100)
           /\ ~config.relative_intensity => SameRows(prepared, AfterBinning)

\* C4 amended: the same, provided the maximum intensity after binning is
\* positive; with a maximum of 0 the division yields NaN and the call raises
\* ValueError.
C4_RelativeMaxIs100_Amended ==
    pc \in {"done", "ValueError"}
        => /\ (config.relative_intensity /\ RLt(RInt(0), MaxInty(AfterBinning)))
                => /\ Returned
                   /\ SameRows(prepared, Rescaled(AfterBinning))
                   /\ MaxInty(prepared) = RInt(100)
           /\ (config.relative_intensity /\ MaxInty(AfterBinning) = RInt(0))
                => pc = "ValueError"
           /\ ~config.relative_intensity
                => (Returned /\ SameRows(prepared, AfterBinning))

\* intensities 10 and 20 become 50 and 100
C4_Witness ==
    /\ Returned /\ config.relative_intensity /\ config.bin_peaks = "False"
    /\ Column(callerExp, "inty") = <<RInt(20), RInt(10)>>
    /\ Column(prepared, "inty") = <<RInt(50), RInt(100)>>

\* C5: the table returned is non-decreasing in inty from first row to last,
\* whatever bin_peaks and relative_intensity are.
C5_SortedByIntensity ==
    Returned => \A k \in 1..(Len(prepared) - 1) :
                    RLe(prepared[k].inty, prepared[k + 1].inty)

\* an input in decreasing order comes back in increasing order
C5_Witness ==
    /\ Returned /\ config.bin_peaks = "False" /\ Len(callerExp) = 2
    /\ RLt(callerExp[2].inty, callerExp[1].inty)
    /\ RLt(prepared[1].inty, prepared[2].inty)

(***************************************************************************)
(* Claims about the three peak-map renderers, checked under SpecPlot.      *)
(***************************************************************************)
Plotted == pc = "done" /\ fig.engine \in Engines

\* C6: a Bokeh or Plotly peak map carries hover tooltips only if _prepare_data
\* did not bin the data in that call; a figure built from binned data has no
\* HoverTool and no hover text, for "auto", True and False and any table size.
C6_NoHoverOnBinnedData ==
    (Plotted /\ fig.engine \in {"BOKEH", "PLOTLY"})
        => /\ fig.hover => ~bins_data(callerExp, config)
           /\ bins_data(callerExp, config) => (~fig.hover /\ fig.hovertext = <<>>)

\* a table within the "auto" threshold, binned all the same, drawn by Bokeh
\* without a HoverTool
C6_Witness ==
    /\ Plotted /\ fig.engine = "BOKEH"
    /\ config.bin_peaks = "auto"
    /\ Len(callerExp) <= BinProduct
    /\ bins_data(callerExp, config)
    /\ ~fig.hover /\ fig.hovertext = <<>>

\* the table one _prepare_data call returns for the caller's table
PreparedOnce == _prepare_data(callerExp, config).table

\* a figure that draws the table, colored from its lowest to its highest inty
Draws(f, table) ==
    /\ f.x = Column(table, "RT")
    /\ f.y = Column(table, "mz")
    /\ f.color = Column(table, "inty")
    /\ f.cmin = ColMin(Column(table, "inty"))
    /\ f.cmax = ColMax(Column(table, "inty"))

\* what two figures have in common whatever the engine
SameView(f, g) ==
    /\ f.x = g.x /\ f.y = g.y /\ f.color = g.color
    /\ f.colorbar = g.colorbar
    /\ f.cmin = g.cmin /\ f.cmax = g.cmax

SameOutcome(res) ==
    IF pc = "done" THEN res.status = "ok" /\ SameView(res.fig, fig)
    ELSE res.status = pc

\* C9: for the same table and configuration the three renderers agree: each
\* draws the table of one _prepare_data call, shows the color bar exactly when
\* show_legend is set, and maps color from the minimum to the maximum
\* intensity of the prepared table.
C9_RenderersEquivalent ==
    pc \in {"done", "ValueError"}
        => /\ \A e \in Engines : SameOutcome(plot(callerExp, [config EXCEPT !.engine = e]))
           /\ Plotted => (Draws(fig, PreparedOnce) /\ fig.colorbar = config.show_legend)

\* a Bokeh figure with a color bar over the domain [10, 20]
C9_Witness ==
    /\ Plotted /\ fig.engine = "BOKEH"
    /\ config.show_legend
    /\ fig.colorbar
    /\ fig.cmin = RInt(10) /\ fig.cmax = RInt(20)

(***************************************************************************)
(* Claims about PLOTLYSpectrumPlot.plot, checked under SpecSpectrum.       *)
(***************************************************************************)
HasReference == specCfg.mirror_spectrum /\ reference # None

\* the traces that follow the spectrum's own sticks, one stick per peak
MirrorTraces == SubSeq(specFig.traces, Len(spectrum) + 1, Len(specFig.traces))

\* a stick from 0 to minus the peak's intensity at the peak's x
IsMirrorOf(trace, peak) ==
    /\ trace.x = <<peak.x, peak.x>>
    /\ trace.y = <<0, 0 - peak.y>>

SamePeak(p, q) == p.x = q.x /\ p.y = q.y

\* C7: with mirror_spectrum set and a reference spectrum present, the figure
\* holds, after the spectrum's sticks, one stick per reference peak from 0 to
\* -1 times the peak's reference intensity at the peak's x, and one baseline
\* at y = 0; with the flag off or no reference it holds the spectrum's sticks
\* only and no baseline.
C7_MirrorSticksNegated ==
    nPlots >= 1
        => IF HasReference
           THEN /\ Len(MirrorTraces) = Len(reference)
                /\ \A k \in 1..Len(reference) :
                      Cardinality({j \in 1..Len(MirrorTraces) :
                                      IsMirrorOf(MirrorTraces[j], reference[k])})
                        = Cardinality({j \in 1..Len(reference) :
                                          SamePeak(reference[j], reference[k])})
                /\ specFig.hlines = <<0>>
           ELSE /\ Len(specFig.traces) = Len(spectrum)
                /\ \A k \in 1..Len(specFig.traces) : specFig.traces[k].y[2] > 0
                /\ specFig.hlines = <<>>

\* a grouped reference of two peaks whose groups are drawn in the other order
C7_Witness ==
    /\ nPlots = 1 /\ HasReference /\ specCfg.by = "group"
    /\ Len(reference) = 2
    /\ reference[1].group = "b" /\ reference[2].group = "a"
    /\ IsMirrorOf(MirrorTraces[1], reference[2])
    /\ IsMirrorOf(MirrorTraces[2], reference[1])
    /\ MirrorTraces[1].y[2] < 0
    /\ specFig.hlines = <<0>>

HeatPlotted == heatFig # NoFig

MarkerTraces == {k \in 1..Len(heatFig.traces) : heatFig.traces[k].mode = "markers"}

HasDomain(marker, low, high) ==
    /\ {"cmin", "cmax"} \subseteq DOMAIN marker
    /\ marker.cmin = low
    /\ marker.cmax = high

\* C10: every marker trace of the feature heatmap, drawn ungrouped or by
\* group, carries the color domain [minimum, maximum] of the z column of the
\* whole table.
C10_MarkerTracesShareGlobalDomain ==
    HeatPlotted
        => \A k \in MarkerTraces :
              HasDomain(heatFig.traces[k].marker, IntMin(Column(heatData, "z")),
                        IntMax(Column(heatData, "z")))

\* the traces of the heatmap figure in a cell of the grid, in their order
CellOf(row, col) == SelectSeq(heatFig.traces, LAMBDA t : t.row = row /\ t.col = col)

\* the cell holds the traces of a plot: the same points in the same mode
SameDrawing(cell, traces) ==
    /\ Len(cell) = Len(traces)
    /\ \A k \in 1..Len(cell) :
          /\ cell[k].x = traces[k].x
          /\ cell[k].y = traces[k].y
          /\ cell[k].mode = traces[k].mode

\* the heatmap's own traces are those of markers, the marginal ones lines
MarginalTraces == SelectSeq(heatFig.traces, LAMBDA t : t.mode = "lines")

LoadStep == extension = Unloaded /\ extension' # Unloaded

\* C11: a _load_extension call with plotly unavailable ends in an ImportError
\* whose message names plotly and says it is not installed, after one import
\* and with no figure built; with plotly available it returns, and in both
\* cases it leaves the state of the plot as it was.
C11_LoadExtensionFailsFast ==
    [][LoadStep =>
        /\ ~plotlyAvailable =>
              /\ extension'.status = "ImportError"
              /\ extension'.message[1] = "plotly"
              /\ extension'.message[2] = " is not installed"
              /\ kindFig' = NoFig
        /\ plotlyAvailable => extension'.status = "loaded"
        /\ extension'.imports = 1
        /\ UNCHANGED <<plotlyAvailable, kindData, features, kindArgs, kindFig>>]_vars

C11_Witness ==
    /\ ~plotlyAvailable
    /\ extension.status = "ImportError"
    /\ kindArgs.kind = "chromatogram"

\* a chromatogram or mobilogram whose plot call has returned
Drawn(kind) == kindArgs.kind = kind /\ kindFig # NoFig

\* the feature-boundary traces of the figure, the dashed outlines, in order
BoundaryTraces == SelectSeq(kindFig.traces, LAMBDA t : t.dash = "dash")

\* the label of feature idx, with the q-value where the table has the column
FeatureLabel(idx) ==
    IF "q_value" \in features.columns
    THEN "Feature " \o ToString(idx) \o " (q-value: "
            \o format_4f(features.rows[idx + 1].q_value) \o ")"
    ELSE "Feature " \o ToString(idx)

\* C13: after the plot call of a chromatogram or a mobilogram with a feature
\* table of n rows the figure holds exactly n feature-boundary traces, the
\* k-th labelled Feature k-1 (with the q-value if the table has the column),
\* and none if no feature table was given.
C13_OneBoundaryPerFeature ==
    Drawn("chromatogram") \/ Drawn("mobilogram") =>
        /\ Len(BoundaryTraces) = Len(features.rows)
        /\ \A k \in 1..Len(BoundaryTraces) : BoundaryTraces[k].name = FeatureLabel(k - 1)

\* the largest y value of the data
MaxY == RInt(IntMax(Column(kindData, "y")))

\* C14: after the plot call of a mobilogram the y axis runs from 0 to
\* max + 0.1 * max, max being the largest y of the data: the range the plot
\* call of a chromatogram sets on the same data, the padding applied once.
C14_MobilogramPaddingNotCompounded ==
    /\ Drawn("mobilogram") =>
          /\ kindFig.yrange = <<RInt(0), RAdd(MaxY, RMul(Rat(1, 10), MaxY))>>
          /\ kindFig.yrange
                = PLOTLYChromatogramPlot_plot(kindData, kindArgs.columns, features).yrange
    /\ Drawn("chromatogram") =>
          kindFig.yrange = <<RInt(0), RAdd(MaxY, RMul(Rat(1, 10), MaxY))>>

C14_Witness ==
    /\ Drawn("mobilogram")
    /\ MaxY = RInt(10)
    /\ kindFig.yrange = <<RInt(0), RInt(11)>>

\* C16: a scatter plot drawn by group with no marker passed gives the i-th
\* group's trace the i-th color of the color generator, so that two groups
\* of one palette cycle never have the same color.
C16_EachGroupOwnColor ==
    Drawn("scatter") /\ kindArgs.by = "group" /\ kindArgs.marker = NoMarker =>
        /\ \A i \in 1..Len(kindFig.traces) :
              kindFig.traces[i].marker = [color |-> next_color(i - 1)]
        /\ \A i, j \in 1..Len(kindFig.traces) :
              i # j /\ i <= Len(Palette) /\ j <= Len(Palette)
                  => kindFig.traces[i].marker # kindFig.traces[j].marker

\* the groups of a stick plot: those of the group column, or the one "Trace"
StickGroups ==
    IF kindArgs.by = "None" THEN {"Trace"}
    ELSE {kindData[k].group : k \in 1..Len(kindData)}

\* the rows of a group and the traces drawn for it, both in their order
RowsOf(g) ==
    IF kindArgs.by = "None" THEN kindData ELSE SelectSeq(kindData, LAMBDA r : r.group = g)

SticksOf(g) == SelectSeq(kindFig.traces, LAMBDA t : t.name = g)

\* C17: a stick plot holds, for every group (the one group "Trace" without a
\* group column), one stick per row of the group, from 0 to the row's y at the
\* row's x; only the first stick of a group can have its legend entry shown,
\* and none has if showlegend=False was passed; the sticks of a group have
\* the group as their legendgroup and one color.
C17_OneStickPerRow ==
    Drawn("vline") =>
        /\ \A g \in StickGroups :
              /\ Len(SticksOf(g)) = Len(RowsOf(g))
              /\ \A k \in 1..Len(SticksOf(g)) :
                    /\ SticksOf(g)[k].x = <<RowsOf(g)[k].x, RowsOf(g)[k].x>>
                    /\ SticksOf(g)[k].y = <<0, RowsOf(g)[k].y>>
                    /\ SticksOf(g)[k].showlegend = "True"
                          => k = 1 /\ kindArgs.showlegend # "False"
                    /\ SticksOf(g)[k].showlegend \in {"True", "False"}
                    /\ SticksOf(g)[k].legendgroup = g
                    /\ SticksOf(g)[k].line_color = SticksOf(g)[1].line_color
        /\ \A k \in 1..Len(kindFig.traces) : kindFig.traces[k].name \in StickGroups
        /\ Len(kindFig.traces) = Len(kindData)

C17_Witness ==
    /\ Drawn("vline")
    /\ kindArgs.by = "group"
    /\ Len(SticksOf("a")) = 2
    /\ SticksOf("a")[1].showlegend = "True"
    /\ SticksOf("a")[2].showlegend = "False"

\* the column a tooltip line shows
ColumnOf(label) ==
    CASE label = "Index" -> "index"
      [] label = "m/z" -> "mz"
      [] label = "Annotation" -> "Annotation"
      [] label = "Target m/z" -> "product_mz"

\* every line of the trace's tooltip that reads the custom data reads, at an
\* index the custom data has, the column the line is about
ReadsOwnColumn(trace) ==
    \A i \in 1..Len(trace.hovertemplate) :
        trace.hovertemplate[i].field = "customdata" =>
            /\ trace.hovertemplate[i].index + 1 \in 1..Len(trace.customdata)
            /\ trace.customdata[trace.hovertemplate[i].index + 1]
                  = ColumnOf(trace.hovertemplate[i].label)

\* the figure has tooltips, on every trace that has them the lines read their
\* own columns, and every optional column of the data has its line
TooltipsAligned(f, columns) ==
    /\ \E k \in 1..Len(f.traces) : f.traces[k].hovertemplate # <<>>
    /\ \A k \in 1..Len(f.traces) :
          f.traces[k].hovertemplate # <<>> =>
              /\ ReadsOwnColumn(f.traces[k])
              /\ \A c \in columns :
                    \E i \in 1..Len(f.traces[k].hovertemplate) :
                        /\ f.traces[k].hovertemplate[i].field = "customdata"
                        /\ ColumnOf(f.traces[k].hovertemplate[i].label) = c

\* C18: in the tooltips of a chromatogram (or mobilogram), a spectrum and a
\* feature heatmap, whichever of the columns mz, Annotation and product_mz the
\* data has, the customdata index of every tooltip line is the position of
\* the line's column in the custom hover data, the row index being at 0: no
\* line reads another column's data or past the end.
C18_TooltipIndicesAligned ==
    /\ Drawn("chromatogram") \/ Drawn("mobilogram")
          => TooltipsAligned(kindFig, kindArgs.columns)
    /\ specFig # NoFig => TooltipsAligned(specFig, specColumns)
    /\ heatFig # NoFig => TooltipsAligned(heatFig, heatColumns)

\* a chromatogram of data without mz: the later columns move up by one
C18_Witness ==
    /\ Drawn("chromatogram")
    /\ kindArgs.columns = {"Annotation", "product_mz"}
    /\ \E i \in 1..Len(kindFig.traces[1].hovertemplate) :
          /\ kindFig.traces[1].hovertemplate[i].label = "Target m/z"
          /\ kindFig.traces[1].hovertemplate[i].index = 2
    /\ kindFig.traces[1].customdata = <<"index", "Annotation", "product_mz">>

(***************************************************************************)
(* A claim about plotMSExperiment, checked under SpecPlot.                 *)
(***************************************************************************)
\* the mz, RT and inty values of a row as they are written out: a column that
\* was binned holds intervals, which are no numbers to compare numbers with
Written(row) == ToString(<<row.mz, row.RT, row.inty>>)

\* C15: after a plotMSExperiment call, returned or raised, whatever bin_peaks
\* and relative_intensity are, the caller's table has the rows it had, their
\* mz, RT and inty values as they were and no hover_text column added.
C15_CallerTableUnchanged ==
    pc \in {"done", "ValueError"} =>
        /\ Len(callerExp) = Len(originalExp)
        /\ \A k \in 1..Len(callerExp) :
              /\ DOMAIN callerExp[k] = DOMAIN originalExp[k]
              /\ "hover_text" \notin DOMAIN callerExp[k]
              /\ Written(callerExp[k]) = Written(originalExp[k])

\* a call that rescaled and annotated the copy it plotted
C15_Witness ==
    /\ pc = "done"
    /\ config.relative_intensity
    /\ \E k \in 1..Len(passedExp) :
          /\ "hover_text" \in DOMAIN passedExp[k]
          /\ passedExp[k].inty # callerExp[k].inty
    /\ \A k \in 1..Len(callerExp) : "hover_text" \notin DOMAIN callerExp[k]


====
